---- MODULE Spec2Model ----
(***************************************************************************)
(* PhizeUp (garrow/phoenix-configurations): keyboard driven window tiling  *)
(* for the Phoenix window manager.                                         *)
(*                                                                         *)
(* Numbers.  A JavaScript number q is held as the integer q * Scale, a     *)
(* count of "ticks" of 1/Scale of a screen point, so that a frame may have *)
(* fields that are not whole points.  Math.round is computed exactly on    *)
(* the rational it is given (half-way cases go towards +Infinity).         *)
(***************************************************************************)
EXTENDS Integers, Sequences, FiniteSets, TLC

VARIABLES
    screenList,     \* Screen.all(): the connected screens, in enumeration order
    focused,        \* Window.focused(): a window, or NoWindow
    winFrame,       \* window.frame() of every window
    winScreen,      \* window.screen() of every window (a screen identifier)
    handler,        \* the handler the host dispatched last, with its parameters
    trace,          \* host calls made by the last handler, in order
    alerts,         \* modals shown by the last handler, in order
    committed,      \* arguments of window.setFrame in the last handler, in order
    fault,          \* TRUE when the last handler ended by throwing
    newScreen,      \* destination screen chosen by the last migration handler
    oldFrame,       \* the focused window's frame when the last handler began
    currentScreen,  \* the focused window's screen when the last handler began
    script,         \* which copy of the script is loaded
    parentFrame,    \* getSubFrame's parentFrame argument (frame calculator runs)
    direction,      \* getSubFrame's / Movements.get's direction argument
    subFrame,       \* what getSubFrame returned
    label,          \* what Movements.get returned
    keyHandlers     \* the keys bound with the host (new Key), in binding order

hostVars == <<screenList, focused, winFrame, winScreen>>
obsVars  == <<handler, trace, alerts, committed, fault, newScreen, oldFrame,
              currentScreen>>
calcVars == <<parentFrame, direction, subFrame, label, script, keyHandlers>>
vars     == <<hostVars, obsVars, calcVars>>

----------------------------------------------------------------------------
(* Bounds of the model                                                     *)

\* ticks per screen point
Scale == 2
\* parent origins range over -MaxOrigin .. MaxOrigin ticks
MaxOrigin == 2
\* parent widths range over 0 .. MaxWide ticks
MaxWide == 14
\* parent heights range over 0 .. MaxHigh ticks
MaxHigh == 6
\* parent frames are translated by -MaxShift .. MaxShift whole points
MaxShift == 1
\* at most MaxScreens screens are connected (no more than Len(ScreenFrames))
MaxScreens == 3

----------------------------------------------------------------------------
(* Numbers and frames                                                      *)

\* n whole screen points
Pt(n) == n * Scale

IsWhole(v) == v % Scale = 0

\* Math.round(num / den), for a number of num/den ticks
MathRound(num, den) == ((2 * num + den * Scale) \div (2 * den * Scale)) * Scale

MathMin(a, b) == IF a <= b THEN a ELSE b

MathSign(v) == IF v > 0 THEN 1 ELSE IF v < 0 THEN -1 ELSE 0

Frame(fx, fy, w, h) == [x |-> fx, y |-> fy, width |-> w, height |-> h]

\* the JavaScript value undefined
Undefined == [undefined |-> TRUE]

\* a number given as the quotient num / den
Quot(n, d) == [num |-> n, den |-> d]

----------------------------------------------------------------------------
(* Partition catalog and frame calculator: getSubFrame                     *)

PartitionNames ==
    { "left", "right", "up", "down",
      "topLeft", "bottomLeft", "topRight", "bottomRight", "centre",
      "leftThird", "centreThird", "rightThird", "left2Thirds", "right2Thirds",
      "topLeftSix", "topCentreSix", "topRightSix",
      "botLeftSix", "botCentreSix", "botRightSix" }

\* property names every object literal inherits from Object.prototype
ObjectPrototype == { "toString", "constructor" }

\* names a handler can be built with that are no partition
UnknownNames == { "bogus", "toString" }

\* change(original)(changeBy), the offset given as a quotient or left out
change_mutGlobalZero(original, changeBy) ==
    LET offset == IF changeBy = Undefined THEN Quot(0, 1) ELSE changeBy
    IN  MathRound(offset.num, offset.den)

change(original, changeBy) ==
    LET offset == IF changeBy = Undefined THEN Quot(0, 1) ELSE changeBy
    IN  MathRound(original * offset.den + offset.num, offset.den)

narrow_mutFull(fullWide) == MathRound(fullWide, 1)

narrow_mutFloor(fullWide) == (fullWide \div (2 * Scale)) * Scale

narrow(fullWide) == MathRound(fullWide, 2)

halfHight_mutWide(fullWide, fullHight) == MathRound(fullWide, 2)

halfHight(fullWide, fullHight) == MathRound(fullHight, 2)

oneThird_mutHalf(fullWide) == MathRound(fullWide, 2)

oneThird(fullWide) == MathRound(fullWide, 3)

twoThirds_mutSame(fullWide) == MathRound(oneThird(fullWide), 1)

twoThirds_mutOfWidth(fullWide) == MathRound(fullWide * 2, 3)

twoThirds(fullWide) == MathRound(oneThird(fullWide) * 2, 1)

\* the entry of the subFrames table under the partition name dir
subFrames(parent, dir) ==
    LET parentX   == parent.x
        parentY   == parent.y
        fullWide  == parent.width
        fullHight == parent.height
        y(changeBy) == change(parentY, changeBy)
        x(changeBy) == change(parentX, changeBy)
        none == Undefined
        nw  == narrow(fullWide)
        hh  == halfHight(fullWide, fullHight)
        ot  == oneThird(fullWide)
        tt  == twoThirds(fullWide)
        by(v) == Quot(v, 1)
        half(v) == Quot(v, 2)
    IN  CASE dir = "left"         -> [y |-> y(none),     x |-> x(none),     width |-> nw,       height |-> fullHight]
          [] dir = "right"        -> [y |-> y(none),     x |-> x(by(nw)),   width |-> nw,       height |-> fullHight]
          [] dir = "up"           -> [y |-> y(none),     x |-> x(none),     width |-> fullWide, height |-> hh]
          [] dir = "down"         -> [y |-> y(by(hh)),   x |-> x(none),     width |-> fullWide, height |-> hh]
          [] dir = "topLeft"      -> [y |-> y(none),     x |-> x(none),     width |-> nw,       height |-> hh]
          [] dir = "bottomLeft"   -> [y |-> y(by(hh)),   x |-> x(none),     width |-> nw,       height |-> hh]
          [] dir = "topRight"     -> [y |-> y(none),     x |-> x(by(nw)),   width |-> nw,       height |-> hh]
          [] dir = "bottomRight"  -> [y |-> y(by(hh)),   x |-> x(by(nw)),   width |-> nw,       height |-> hh]
          [] dir = "centre"       -> [y |-> y(half(hh)), x |-> x(half(nw)), width |-> nw,       height |-> hh]
          [] dir = "leftThird"    -> [y |-> y(none),     x |-> x(none),     width |-> ot,       height |-> fullHight]
          [] dir = "centreThird"  -> [y |-> y(none),     x |-> x(by(ot)),   width |-> ot,       height |-> fullHight]
          [] dir = "rightThird"   -> [y |-> y(none),     x |-> x(by(tt)),   width |-> ot,       height |-> fullHight]
          [] dir = "left2Thirds"  -> [y |-> y(none),     x |-> x(none),     width |-> tt,       height |-> fullHight]
          [] dir = "right2Thirds" -> [y |-> y(none),     x |-> x(by(ot)),   width |-> tt,       height |-> fullHight]
          [] dir = "topLeftSix"   -> [y |-> y(none),     x |-> x(none),     width |-> ot,       height |-> hh]
          [] dir = "topCentreSix" -> [y |-> y(none),     x |-> x(by(ot)),   width |-> ot,       height |-> hh]
          [] dir = "topRightSix"  -> [y |-> y(none),     x |-> x(by(tt)),   width |-> ot,       height |-> hh]
          [] dir = "botLeftSix"   -> [y |-> y(by(hh)),   x |-> x(none),     width |-> ot,       height |-> hh]
          [] dir = "botCentreSix" -> [y |-> y(by(hh)),   x |-> x(by(ot)),   width |-> ot,       height |-> hh]
          [] dir = "botRightSix"  -> [y |-> y(by(hh)),   x |-> x(by(tt)),   width |-> ot,       height |-> hh]

\* subFrames[direction]: own properties of the table, then what every object
\* inherits, then undefined
getSubFrame(parent, dir) ==
    IF dir \in PartitionNames THEN subFrames(parent, dir)
    ELSE IF dir \in ObjectPrototype THEN [function |-> dir]
    ELSE Undefined

----------------------------------------------------------------------------
(* Key bindings: multiKey and setupHandlers.  A handler is held as the     *)
(* call that built it.                                                     *)

\* config.sizeUpDefaults
sizeUpDefaults == FALSE

modKeys1 == <<"ctrl", "alt", "cmd">>

modKeys2 == <<"ctrl", "alt", "shift">>

screenKeys == <<"ctrl", "alt">>

putWindow(dir) == [name |-> "putWindow", direction |-> dir]

maximise == [name |-> "maximise"]

putWindowScreen(toScreen, keepMaximised) ==
    [name |-> "putWindowScreen", toScreen |-> toScreen,
     keepMaximised |-> keepMaximised]

\* new Key(key, modifiers, handler)
Key(key, modifiers, callback) ==
    [key |-> key, modifiers |-> modifiers, handler |-> callback]

\* the alternates argument of multiKey: one key, or an array of keys
One(key) == [isArray |-> FALSE, key |-> key]

Many(keys) == [isArray |-> TRUE, items |-> keys]

multiKey_mutFirstOnly(alternates, modifiers, callback) ==
    LET keys == IF alternates.isArray THEN alternates.items ELSE <<alternates.key>>
    IN  [i \in 1 .. (IF keys = <<>> THEN 0 ELSE 1) |->
            Key(keys[i], modifiers, callback)]

multiKey(alternates, modifiers, callback) ==
    LET keys == IF alternates.isArray THEN alternates.items ELSE <<alternates.key>>
    IN  [i \in 1 .. Len(keys) |-> Key(keys[i], modifiers, callback)]

\* the corner moves of the keymap chosen
quarters_mutSameModifiers(useSizeUpDefaults) ==
    IF useSizeUpDefaults
    THEN multiKey(One("left"),  modKeys1, putWindow("topLeft"))
      \o multiKey(One("up"),    modKeys1, putWindow("topRight"))
      \o multiKey(One("down"),  modKeys1, putWindow("bottomLeft"))
      \o multiKey(One("right"), modKeys1, putWindow("bottomRight"))
    ELSE multiKey(One("r"), modKeys1, putWindow("topLeft"))
      \o multiKey(One("t"), modKeys1, putWindow("topRight"))
      \o multiKey(One("f"), modKeys1, putWindow("bottomLeft"))
      \o multiKey(One("g"), modKeys1, putWindow("bottomRight"))

quarters(useSizeUpDefaults) ==
    IF useSizeUpDefaults
    THEN multiKey(One("left"),  modKeys2, putWindow("topLeft"))
      \o multiKey(One("up"),    modKeys2, putWindow("topRight"))
      \o multiKey(One("down"),  modKeys2, putWindow("bottomLeft"))
      \o multiKey(One("right"), modKeys2, putWindow("bottomRight"))
    ELSE multiKey(One("r"), modKeys1, putWindow("topLeft"))
      \o multiKey(One("t"), modKeys1, putWindow("topRight"))
      \o multiKey(One("f"), modKeys1, putWindow("bottomLeft"))
      \o multiKey(One("g"), modKeys1, putWindow("bottomRight"))

\* the bindings every keymap of phizeup.js and mousey.js shares, in the order
\* the object literal evaluates them
shared ==
       multiKey(One("up"),    modKeys1, putWindow("up"))
    \o multiKey(One("down"),  modKeys1, putWindow("down"))
    \o multiKey(One("left"),  modKeys1, putWindow("left"))
    \o multiKey(One("right"), modKeys1, putWindow("right"))
    \o multiKey(Many(<<",", "keypad1">>), modKeys1, putWindow("leftThird"))
    \o multiKey(Many(<<".", "keypad2">>), modKeys1, putWindow("centreThird"))
    \o multiKey(Many(<<"/", "keypad3">>), modKeys1, putWindow("rightThird"))
    \o multiKey(Many(<<";", "keypad0">>), modKeys1, putWindow("left2Thirds"))
    \o multiKey(Many(<<"'", "keypad.">>), modKeys1, putWindow("right2Thirds"))
    \o multiKey(Many(<<"u", "keypad7">>), modKeys1, putWindow("topLeftSix"))
    \o multiKey(Many(<<"i", "keypad8">>), modKeys1, putWindow("topCentreSix"))
    \o multiKey(Many(<<"o", "keypad9">>), modKeys1, putWindow("topRightSix"))
    \o multiKey(Many(<<"j", "keypad4">>), modKeys1, putWindow("botLeftSix"))
    \o multiKey(Many(<<"k", "keypad5">>), modKeys1, putWindow("botCentreSix"))
    \o multiKey(Many(<<"l", "keypad6">>), modKeys1, putWindow("botRightSix"))
    \o multiKey(Many(<<"c", "keypad-">>), modKeys1, putWindow("centre"))
    \o multiKey(Many(<<"m", "keypad+">>), modKeys1, maximise)
    \o multiKey(Many(<<"left", "right">>), screenKeys,
                putWindowScreen("next", FALSE))
    \o multiKey(Many(<<"left", "right">>), modKeys2,
                putWindowScreen("anything", TRUE))

\* the legacy script binds every key with new Key, one call per key
legacyKeys(useSizeUpDefaults) ==
    (IF useSizeUpDefaults
     THEN << Key("left",  modKeys2, putWindow("topLeft")),
             Key("up",    modKeys2, putWindow("topRight")),
             Key("down",  modKeys2, putWindow("bottomLeft")),
             Key("right", modKeys2, putWindow("bottomRight")) >>
     ELSE << Key("r", modKeys1, putWindow("topLeft")),
             Key("t", modKeys1, putWindow("topRight")),
             Key("f", modKeys1, putWindow("bottomLeft")),
             Key("g", modKeys1, putWindow("bottomRight")) >>)
    \o << Key("up",      modKeys1, putWindow("up")),
          Key("down",    modKeys1, putWindow("down")),
          Key("left",    modKeys1, putWindow("left")),
          Key("right",   modKeys1, putWindow("right")),
          Key("keypad1", modKeys1, putWindow("leftThird")),
          Key("keypad2", modKeys1, putWindow("centreThird")),
          Key("keypad3", modKeys1, putWindow("rightThird")),
          Key("keypad0", modKeys1, putWindow("left2Thirds")),
          Key("keypad.", modKeys1, putWindow("right2Thirds")),
          Key(",",       modKeys1, putWindow("leftThird")),
          Key(".",       modKeys1, putWindow("centreThird")),
          Key("/",       modKeys1, putWindow("rightThird")),
          Key(";",       modKeys1, putWindow("left2Thirds")),
          Key("'",       modKeys1, putWindow("right2Thirds")),
          Key("keypad7", modKeys1, putWindow("topLeftSix")),
          Key("keypad8", modKeys1, putWindow("topCentreSix")),
          Key("keypad9", modKeys1, putWindow("topRightSix")),
          Key("keypad4", modKeys1, putWindow("botLeftSix")),
          Key("keypad5", modKeys1, putWindow("botCentreSix")),
          Key("keypad6", modKeys1, putWindow("botRightSix")),
          Key("c",       modKeys1, putWindow("centre")),
          Key("keypad-", modKeys1, putWindow("centre")),
          Key("m",       modKeys1, maximise),
          Key("keypad+", modKeys1, maximise),
          Key("right",   screenKeys, putWindowScreen("next", FALSE)),
          Key("left",    screenKeys, putWindowScreen("previous", FALSE)) >>

\* setupHandlers(useSizeUpDefaults) in script scr: the keys it binds
setupHandlers(scr, useSizeUpDefaults) ==
    IF scr = "part_000" THEN legacyKeys(useSizeUpDefaults)
    ELSE quarters(useSizeUpDefaults) \o shared

\* the handler mousey.js binds besides the window moves
MousePointerReveal == [name |-> "MousePointer.reveal"]

\* var wheresTheCheese = new Key('m', ['cmd','alt','ctrl'], MousePointer.reveal)
wheresTheCheese == Key("m", <<"cmd", "alt", "ctrl">>, MousePointerReveal)

\* every Key a script has made once it is loaded with the keymap setting
\* given, in the order they are made
loaded(scr, useSizeUpDefaults) ==
    (IF scr = "mousey.js" THEN <<wheresTheCheese>> ELSE <<>>)
        \o setupHandlers(scr, useSizeUpDefaults)

----------------------------------------------------------------------------
(* Movements: the labels shown when a window is moved.  A label is held as *)
(* its sequence of tokens: the fraction glyph, a separator (a newline or a *)
(* space) and the picture of the partition, which stands under its name.   *)

\* the copies of the script in the repository
Scripts == { "phizeup.js", "phizeup.js#2", "part_000", "mousey.js" }

LabelNames == PartitionNames \cup { "maximised" }

Fraction(name) ==
    CASE name \in { "up", "down", "left", "right" } -> "1/2"
      [] name \in { "topLeft", "topRight", "bottomLeft", "bottomRight" } -> "1/4"
      [] name \in { "leftThird", "centreThird", "rightThird" } -> "1/3"
      [] name \in { "left2Thirds", "right2Thirds" } -> "2/3"
      [] OTHER -> "1/6"

\* the own property Movements[name] of the copy scr
Movements(scr, name) ==
    IF name \in { "maximised", "centre" } THEN <<name>>
    ELSE IF scr = "phizeup.js#2" /\ name \in { "up", "down", "left" }
         THEN <<Fraction(name), " ", name>>
         ELSE <<Fraction(name), "\n", name>>

\* direction names a property of the Movements object: a label, the get
\* method, or a method inherited from Object.prototype
HasProperty(dir) == dir \in LabelNames \cup { "get" } \cup ObjectPrototype

\* this[direction] on the Movements object, for a direction that names one
MovementsProperty(scr, dir) ==
    IF dir \in LabelNames THEN Movements(scr, dir) ELSE <<"function", dir>>

\* str.split(' ').join("\n").replace(/ +/g, '')
SpacesToNewlines(tokens) ==
    [i \in 1 .. Len(tokens) |-> IF tokens[i] = " " THEN "\n" ELSE tokens[i]]

\* Movements.get(direction): what it returns, or that it threw
MovementsGet_mutDotDirection(scr, dir) ==
    [threw |-> TRUE, value |-> <<"TypeError">>]

MovementsGet(scr, dir) ==
    IF scr = "phizeup.js#2"
    THEN \* this[direction].split(' ').join("\n").replace(/ +/g,'') || ...
         IF dir \in LabelNames
         THEN [threw |-> FALSE,
               value |-> SpacesToNewlines(MovementsProperty(scr, dir))]
         ELSE [threw |-> TRUE, value |-> <<"TypeError">>]
    ELSE \* this[direction] || direction.toString()
         IF HasProperty(dir)
         THEN [threw |-> FALSE, value |-> MovementsProperty(scr, dir)]
         ELSE [threw |-> FALSE, value |-> <<dir>>]

----------------------------------------------------------------------------
(* The host: screens and windows as Phoenix reports them.  Window frames   *)
(* and the flipped screen frames share one space (origin top left of the   *)
(* primary screen, y downwards); frame() and visibleFrame() of a screen    *)
(* are in the unflipped space (y upwards from the primary's bottom edge).  *)

\* flippedFrame() of the screens that can be connected, by identifier
ScreenFrames ==
    << Frame(Pt(0), Pt(0), Pt(8), Pt(6)),
       Frame(Pt(8), Pt(-2), Pt(5), Pt(4)),
       Frame(Pt(-10), Pt(1), Pt(10), Pt(7)),
       Frame(Pt(13), Pt(0), Pt(7), Pt(5)) >>

ScreenIds == 1 .. MaxScreens

\* the menu bar takes the top point of every screen
flippedFrame_mutStale(id) == ScreenFrames[1]

flippedFrame(id) == ScreenFrames[id]

flippedVisibleFrame(id) ==
    [ScreenFrames[id] EXCEPT !.y = @ + Pt(1), !.height = @ - Pt(1)]

Unflip(f) == [f EXCEPT !.y = ScreenFrames[1].height - (f.y + f.height)]

visibleFrame(id) == Unflip(flippedVisibleFrame(id))

\* Screen.all() may return any non-empty list of distinct screens
ScreenLists ==
    { l \in UNION { [1 .. n -> ScreenIds] : n \in 1 .. MaxScreens } :
        \A i \in DOMAIN l, j \in DOMAIN l : i # j => l[i] # l[j] }

Range(l) == { l[i] : i \in DOMAIN l }

Windows == { "w1" }

NoWindow == "undefined"

\* frames the user can give a window on screen id: a small one, the screen's
\* whole visible frame, that size moved right, and one a point narrower
UserFrames(id) ==
    LET v == flippedVisibleFrame(id)
    IN  { Frame(v.x + Pt(1), v.y + Pt(1), Pt(3), Pt(2)),
          v,
          Frame(v.x + Pt(1), v.y, v.width, v.height),
          Frame(v.x, v.y, v.width - Pt(1), v.height) }

Contains(f, px, py) ==
    /\ f.x <= px /\ px < f.x + f.width
    /\ f.y <= py /\ py < f.y + f.height

\* window.screen() once the window has frame f: the connected screen that
\* holds f's origin, else the screen the window was on
ScreenHolding(f, was, screens) ==
    LET holding == { id \in Range(screens) : Contains(flippedFrame(id), f.x, f.y) }
    IN  IF holding = {} THEN was ELSE CHOOSE id \in holding : TRUE

\* Screen.main(): the screen of the focused window, else the first screen
ScreenMain == IF focused = NoWindow THEN screenList[1] ELSE winScreen[focused]

Idle ==
    /\ handler = [name |-> "none"]
    /\ trace = <<>>
    /\ alerts = <<>>
    /\ committed = <<>>
    /\ fault = FALSE
    /\ newScreen = 0
    /\ oldFrame = Undefined
    /\ currentScreen = 0

Init ==
    /\ screenList \in ScreenLists
    /\ focused \in Windows \cup { NoWindow }
    /\ winScreen \in [Windows -> Range(screenList)]
    /\ winFrame \in [Windows -> UNION { UserFrames(id) : id \in ScreenIds }]
    /\ \A w \in Windows : winFrame[w] \in UserFrames(winScreen[w])
    /\ Idle
    /\ script = "phizeup.js"
    /\ keyHandlers = setupHandlers(script, sizeUpDefaults)
    /\ parentFrame = Undefined
    /\ direction = "none"
    /\ subFrame = Undefined
    /\ label = Undefined

\* the host is between key events: no handler has run since the last change
\* (handlers run to completion, one at a time, on the host's event thread)
Idle_next ==
    /\ handler' = [name |-> "none"]
    /\ trace' = <<>>
    /\ alerts' = <<>>
    /\ committed' = <<>>
    /\ fault' = FALSE
    /\ newScreen' = 0
    /\ oldFrame' = Undefined
    /\ currentScreen' = 0

\* the user focuses a window, or leaves none focused
HostFocus(w) ==
    /\ Idle
    /\ focused # w
    /\ focused' = w
    /\ Idle_next
    /\ UNCHANGED <<screenList, winFrame, winScreen, calcVars>>

\* screens are plugged, unplugged or rearranged; a window whose screen is gone
\* is put on the first screen, filling its visible frame
HostScreens(l) ==
    /\ Idle
    /\ screenList # l
    /\ screenList' = l
    /\ winScreen' = [w \in Windows |->
                        IF winScreen[w] \in Range(l) THEN winScreen[w] ELSE l[1]]
    /\ winFrame' = [w \in Windows |->
                        IF winScreen[w] \in Range(l) THEN winFrame[w]
                        ELSE flippedVisibleFrame(l[1])]
    /\ Idle_next
    /\ UNCHANGED <<focused, calcVars>>

\* the user drags or resizes a window
HostMoveWindow(w, id, f) ==
    /\ Idle
    /\ id \in Range(screenList)
    /\ f \in UserFrames(id)
    /\ winFrame[w] # f
    /\ winFrame' = [winFrame EXCEPT ![w] = f]
    /\ winScreen' = [winScreen EXCEPT ![w] = id]
    /\ Idle_next
    /\ UNCHANGED <<focused, screenList, calcVars>>

\* window.setFrame(arg): a frame is applied as given; what the host does with
\* undefined (or any value that is no frame) is not defined: it may leave the
\* window alone or collapse it
SetFrameOutcomes(w, arg) ==
    IF "x" \in DOMAIN arg THEN { arg }
    ELSE { winFrame[w], Frame(0, 0, 0, 0) }

----------------------------------------------------------------------------
(* The handlers the key bindings dispatch.  Each action is one whole run   *)
(* of a handler; trace, alerts and committed record what it did.           *)

\* host calls of alertModal(message, onScreen)
alertModal(onScreenGiven) ==
    (IF onScreenGiven THEN <<>> ELSE <<"Screen.main">>)
        \o <<"screen.visibleFrame", "modal.show">>

\* the modal shown: its text and the screen it is centred on
Alert_mutMain(message, id) == [text |-> message, screen |-> screenList[1]]

Alert(message, id) == [text |-> message, screen |-> id]

\* the host call that applies a frame to the window; it is the handler's
\* last call
setFrame_mutThenFeedback == <<"window.setFrame", "modal.show">>

setFrame == <<"window.setFrame">>

\* the window is given frame f by the host
Placed(w, f) ==
    /\ winFrame' = [winFrame EXCEPT ![w] = f]
    /\ winScreen' = [winScreen EXCEPT ![w] = ScreenHolding(f, winScreen[w], screenList)]

\* a handler gives up: after the host calls made so far it shows message on
\* the main screen and returns, leaving every window alone
Abort_mutNoReturn(calls, message) ==
    /\ trace' = calls \o alertModal(FALSE) \o <<"window.screen">>
    /\ alerts' = <<Alert(message, ScreenMain)>>
    /\ committed' = <<>>
    /\ fault' = TRUE
    /\ newScreen' = 0
    /\ UNCHANGED <<winFrame, winScreen>>

Abort(calls, message) ==
    /\ trace' = calls \o alertModal(FALSE)
    /\ alerts' = <<Alert(message, ScreenMain)>>
    /\ committed' = <<>>
    /\ fault' = FALSE
    /\ newScreen' = 0
    /\ UNCHANGED <<winFrame, winScreen>>

\* the frame setInSubFrame gives the window: it reads the window's frame but
\* uses the parent frame and the partition name only
setInSubFrame_mutRelative(old, parent, dir) == getSubFrame(old, dir)

setInSubFrame(old, parent, dir) == getSubFrame(parent, dir)

\* the handler built by putWindow(dir)
PutWindow(dir) ==
    /\ Idle
    /\ handler' = [name |-> "putWindow", direction |-> dir, window |-> focused]
    /\ UNCHANGED <<focused, screenList, calcVars>>
    /\ IF focused = NoWindow
       THEN \* withWindow: alertModal("Nothing to move")
            /\ Abort(<<"Window.focused">>, <<"Nothing to move">>)
            /\ oldFrame' = Undefined
            /\ currentScreen' = 0
       ELSE LET window      == focused
                screen      == winScreen[window]
                screenFrame == flippedFrame(screen)
                message     == MovementsGet(script, dir)
                newWindowFrame == setInSubFrame(winFrame[window], screenFrame, dir)
            IN  /\ oldFrame' = winFrame[window]
                /\ currentScreen' = screen
                /\ newScreen' = 0
                /\ IF message.threw
                   THEN /\ trace' = <<"Window.focused", "window.screen",
                                      "screen.flippedFrame">>
                        /\ alerts' = <<>>
                        /\ committed' = <<>>
                        /\ fault' = TRUE
                        /\ UNCHANGED <<winFrame, winScreen>>
                   ELSE \* windowMovedAlert, then setInSubFrame
                        /\ trace' = <<"Window.focused", "window.screen",
                                      "screen.flippedFrame", "window.screen">>
                                    \o alertModal(TRUE)
                                    \o <<"window.frame">> \o setFrame
                        /\ alerts' = <<Alert(message.value, screen)>>
                        /\ committed' = <<newWindowFrame>>
                        /\ fault' = FALSE
                        /\ \E f \in SetFrameOutcomes(window, newWindowFrame) :
                              Placed(window, f)

\* the handler built by maximise()
Maximise ==
    /\ Idle
    /\ handler' = [name |-> "maximise", window |-> focused]
    /\ UNCHANGED <<focused, screenList, calcVars>>
    /\ IF focused = NoWindow
       THEN /\ Abort(<<"Window.focused">>, <<"Nothing to move">>)
            /\ oldFrame' = Undefined
            /\ currentScreen' = 0
       ELSE LET window == focused
                screen == winScreen[window]
            IN  /\ oldFrame' = winFrame[window]
                /\ currentScreen' = screen
                /\ newScreen' = 0
                /\ committed' = <<>>
                /\ fault' = FALSE
                /\ trace' = <<"Window.focused", "window.screen">>
                            \o alertModal(TRUE) \o <<"window.maximise">>
                /\ alerts' = <<Alert(Movements(script, "maximised"), screen)>>
                /\ Placed(window, flippedVisibleFrame(screen))

\* _.reject(screenList, s => s.identifier() == currentScreen.identifier())
candidateOtherScreens_mutLast(screens, current) ==
    LET others == SelectSeq(screens, LAMBDA id : ~(id = current))
    IN  IF others = <<>> THEN others ELSE <<others[Len(others)]>>

candidateOtherScreens_mutNext(screens, current) ==
    LET at == CHOOSE i \in DOMAIN screens : screens[i] = current
    IN  SubSeq(screens, at + 1, Len(screens)) \o SubSeq(screens, 1, at - 1)

candidateOtherScreens(screens, current) ==
    SelectSeq(screens, LAMBDA id : ~(id = current))

\* the compass label of the move from oldF to newF
changeDirection_mutTransposed(newF, oldF) ==
    LET xdir == MathSign(newF.x - oldF.x)
        ydir == MathSign(newF.y - oldF.y)
        directions == << <<"up-left",   "up",   "up-right">>,
                         <<"left",      "o",    "right">>,
                         <<"down-left", "down", "down-right">> >>
    IN  directions[xdir + 2][ydir + 2]

changeDirection(newF, oldF) ==
    LET xdir == MathSign(newF.x - oldF.x)
        ydir == MathSign(newF.y - oldF.y)
        directions == << <<"up-left",   "up",   "up-right">>,
                         <<"left",      "o",    "right">>,
                         <<"down-left", "down", "down-right">> >>
    IN  directions[ydir + 2][xdir + 2]

\* the frame putWindowScreen gives the window on the screen it chose
newFrame_mutShrinkOnly(old, current, chosen, keepMaximised) ==
    LET newScreenFrame == flippedVisibleFrame(chosen)
    IN  [ y      |-> newScreenFrame.y,
          x      |-> newScreenFrame.x,
          width  |-> MathMin(old.width, newScreenFrame.width),
          height |-> MathMin(old.height, newScreenFrame.height) ]

newFrame_mutKeepSize(old, current, chosen, keepMaximised) ==
    LET newScreenFrame     == flippedVisibleFrame(chosen)
        currentScreenFrame == visibleFrame(current)
        maximised == /\ keepMaximised
                     /\ currentScreenFrame.width = old.width
                     /\ currentScreenFrame.height = old.height
    IN  [ y      |-> newScreenFrame.y,
          x      |-> newScreenFrame.x,
          width  |-> IF maximised THEN newScreenFrame.width ELSE old.width,
          height |-> IF maximised THEN newScreenFrame.height ELSE old.height ]

newFrame_mutFill(old, current, chosen, keepMaximised) ==
    LET newScreenFrame == flippedVisibleFrame(chosen)
    IN  [ y      |-> newScreenFrame.y,
          x      |-> newScreenFrame.x,
          width  |-> newScreenFrame.width,
          height |-> newScreenFrame.height ]

newFrame_mutFullFrameTest(old, current, chosen, keepMaximised) ==
    LET newScreenFrame     == flippedVisibleFrame(chosen)
        currentScreenFrame == flippedFrame(current)
        maximised == /\ keepMaximised
                     /\ currentScreenFrame.width = old.width
                     /\ currentScreenFrame.height = old.height
    IN  [ y      |-> newScreenFrame.y,
          x      |-> newScreenFrame.x,
          width  |-> IF maximised THEN newScreenFrame.width
                     ELSE MathMin(old.width, newScreenFrame.width),
          height |-> IF maximised THEN newScreenFrame.height
                     ELSE MathMin(old.height, newScreenFrame.height) ]

newFrame(old, current, chosen, keepMaximised) ==
    LET newScreenFrame     == flippedVisibleFrame(chosen)
        currentScreenFrame == visibleFrame(current)
        maximised == /\ keepMaximised
                     /\ currentScreenFrame.width = old.width
                     /\ currentScreenFrame.height = old.height
    IN  [ y      |-> newScreenFrame.y,
          x      |-> newScreenFrame.x,
          width  |-> IF maximised THEN newScreenFrame.width
                     ELSE MathMin(old.width, newScreenFrame.width),
          height |-> IF maximised THEN newScreenFrame.height
                     ELSE MathMin(old.height, newScreenFrame.height) ]

ToScreens == { "next", "anything" }

\* screenList.length < 2
TooFewScreens_mutOne(screens) == Len(screens) < 1

TooFewScreens(screens) == Len(screens) < 2

\* the screen the window goes to: the first candidate, whatever toScreen is
destination_mutPrevious(toScreen, candidates) ==
    IF toScreen = "next" THEN candidates[1] ELSE candidates[Len(candidates)]

destination(toScreen, candidates) == candidates[1]

\* the handler built by putWindowScreen(toScreen, keepMaximised)
PutWindowScreen(toScreen, keepMaximised) ==
    /\ Idle
    /\ handler' = [name |-> "putWindowScreen", toScreen |-> toScreen,
                   keepMaximised |-> keepMaximised, window |-> focused]
    /\ UNCHANGED <<focused, screenList, calcVars>>
    /\ IF focused = NoWindow
       THEN /\ Abort(<<"Window.focused">>, <<"NO Windows for current app">>)
            /\ oldFrame' = Undefined
            /\ currentScreen' = 0
       ELSE LET window     == focused
                current    == winScreen[window]
                candidates == candidateOtherScreens(screenList, current)
            IN  /\ oldFrame' = winFrame[window]
                /\ currentScreen' = current
                /\ IF TooFewScreens(screenList)
                   THEN Abort(<<"Window.focused", "window.screen", "Screen.all">>,
                              <<"NO SCREENS">>)
                   ELSE IF candidates = <<>>
                   THEN \* candidateOtherScreens[0] is undefined: TypeError
                        /\ trace' = <<"Window.focused", "window.screen", "Screen.all">>
                        /\ alerts' = <<>>
                        /\ committed' = <<>>
                        /\ fault' = TRUE
                        /\ newScreen' = 0
                        /\ UNCHANGED <<winFrame, winScreen>>
                   ELSE LET chosen  == destination(toScreen, candidates)
                            planned == newFrame(winFrame[window], current,
                                                chosen, keepMaximised)
                            message == <<"tv", "\n",
                                         changeDirection(planned, winFrame[window])>>
                        IN  /\ newScreen' = chosen
                            /\ trace' = <<"Window.focused", "window.screen", "Screen.all",
                                          "screen.flippedVisibleFrame", "window.frame",
                                          "screen.visibleFrame">>
                                        \o alertModal(TRUE) \o alertModal(TRUE)
                                        \o setFrame
                            /\ alerts' = <<Alert(message, current),
                                           Alert(message, chosen)>>
                            /\ committed' = <<planned>>
                            /\ fault' = FALSE
                            /\ Placed(window, planned)

\* the handler has returned to the host's event loop; what it did is no
\* longer observed
Return ==
    /\ handler.name # "none"
    /\ Idle_next
    /\ UNCHANGED <<hostVars, calcVars>>

Next ==
    \/ Return
    \/ \E w \in Windows \cup { NoWindow } : HostFocus(w)
    \/ \E l \in ScreenLists : HostScreens(l)
    \/ \E w \in Windows, id \in ScreenIds : \E f \in UserFrames(id) :
          HostMoveWindow(w, id, f)
    \/ \E dir \in PartitionNames \cup UnknownNames : PutWindow(dir)
    \/ Maximise
    \/ \E toScreen \in ToScreens, keepMaximised \in BOOLEAN :
          PutWindowScreen(toScreen, keepMaximised)

Spec == Init /\ [][Next]_vars

----------------------------------------------------------------------------
(* The legacy script (part_000): its migration handler. Its partition      *)
(* handler resolves frames without rounding and is not part of this        *)
(* specification.                                                          *)

\* the frame the legacy putWindowScreen gives the window: the destination's
\* full-frame origin, the old size
legacyNewFrame(old, chosen) ==
    LET newScreenFrame == flippedFrame(chosen)
    IN  [ x      |-> newScreenFrame.x,
          y      |-> newScreenFrame.y,
          width  |-> old.width,
          height |-> old.height ]

\* the handler built by the legacy putWindowScreen(toScreen)
LegacyPutWindowScreen(toScreen) ==
    /\ Idle
    /\ script = "part_000"
    /\ handler' = [name |-> "putWindowScreen", toScreen |-> toScreen,
                   keepMaximised |-> FALSE, window |-> focused]
    /\ UNCHANGED <<focused, screenList, calcVars>>
    /\ IF focused = NoWindow
       THEN /\ Abort(<<"Window.focused">>, <<"NO Windows for current app">>)
            /\ oldFrame' = Undefined
            /\ currentScreen' = 0
       ELSE LET window     == focused
                current    == winScreen[window]
                candidates == candidateOtherScreens(screenList, current)
            IN  /\ oldFrame' = winFrame[window]
                /\ currentScreen' = current
                /\ IF TooFewScreens(screenList)
                   THEN Abort(<<"Window.focused", "window.screen", "Screen.all">>,
                              <<"NO SCREENS">>)
                   ELSE IF candidates = <<>>
                   THEN /\ trace' = <<"Window.focused", "window.screen", "Screen.all">>
                        /\ alerts' = <<>>
                        /\ committed' = <<>>
                        /\ fault' = TRUE
                        /\ newScreen' = 0
                        /\ UNCHANGED <<winFrame, winScreen>>
                   ELSE LET chosen  == destination(toScreen, candidates)
                            planned == legacyNewFrame(winFrame[window], chosen)
                        IN  /\ newScreen' = chosen
                            /\ trace' = <<"Window.focused", "window.screen", "Screen.all">>
                                        \o [i \in 1 .. Len(candidates) + 1 |->
                                               "screen.flippedFrame"]
                                        \o <<"window.frame">>
                                        \o alertModal(FALSE)
                                        \o setFrame
                            /\ alerts' = <<Alert(<<"MOVE SCREEN">>, ScreenMain)>>
                            /\ committed' = <<planned>>
                            /\ fault' = FALSE
                            /\ Placed(window, planned)

InitLegacy ==
    /\ screenList \in ScreenLists
    /\ focused \in Windows \cup { NoWindow }
    /\ winScreen \in [Windows -> Range(screenList)]
    /\ winFrame \in [Windows -> UNION { UserFrames(id) : id \in ScreenIds }]
    /\ \A w \in Windows : winFrame[w] \in UserFrames(winScreen[w])
    /\ Idle
    /\ script = "part_000"
    /\ keyHandlers = setupHandlers(script, sizeUpDefaults)
    /\ parentFrame = Undefined
    /\ direction = "none"
    /\ subFrame = Undefined
    /\ label = Undefined

NextLegacy ==
    \/ Return
    \/ \E w \in Windows \cup { NoWindow } : HostFocus(w)
    \/ \E l \in ScreenLists : HostScreens(l)
    \/ \E w \in Windows, id \in ScreenIds : \E f \in UserFrames(id) :
          HostMoveWindow(w, id, f)
    \/ Maximise
    \/ \E toScreen \in { "next", "previous" } : LegacyPutWindowScreen(toScreen)

SpecLegacy == InitLegacy /\ [][NextLegacy]_vars

----------------------------------------------------------------------------
(* mousey.js: the window moves of phizeup.js and MousePointer.reveal       *)

\* MousePointer.reveal: a short modal over the mouse pointer, placed with the
\* height of the focused window's screen
Reveal ==
    /\ Idle
    /\ script = "mousey.js"
    /\ handler' = [name |-> "MousePointer.reveal", window |-> focused]
    /\ UNCHANGED <<hostVars, calcVars>>
    /\ committed' = <<>>
    /\ newScreen' = 0
    /\ oldFrame' = Undefined
    /\ IF focused = NoWindow
       THEN \* Window.focused() is undefined: .screen() is a TypeError
            /\ trace' = <<"Window.focused">>
            /\ alerts' = <<>>
            /\ fault' = TRUE
            /\ currentScreen' = 0
       ELSE /\ trace' = <<"Window.focused", "window.screen",
                          "screen.frameInRectangle", "Mouse.location",
                          "modal.frame", "modal.show">>
            /\ alerts' = <<Alert(<<"mouse">>, winScreen[focused])>>
            /\ fault' = FALSE
            /\ currentScreen' = winScreen[focused]

InitMousey ==
    /\ screenList \in ScreenLists
    /\ focused \in Windows \cup { NoWindow }
    /\ winScreen \in [Windows -> Range(screenList)]
    /\ winFrame \in [Windows -> UNION { UserFrames(id) : id \in ScreenIds }]
    /\ \A w \in Windows : winFrame[w] \in UserFrames(winScreen[w])
    /\ Idle
    /\ script = "mousey.js"
    /\ keyHandlers = loaded(script, sizeUpDefaults)
    /\ parentFrame = Undefined
    /\ direction = "none"
    /\ subFrame = Undefined
    /\ label = Undefined

NextMousey ==
    \/ Next
    \/ Reveal

SpecMousey == InitMousey /\ [][NextMousey]_vars

----------------------------------------------------------------------------
(* Frame calculator runs: getSubFrame applied to a parent frame drawn from *)
(* the bounded grid.                                                       *)

Origins == -MaxOrigin .. MaxOrigin

ParentFrames ==
    { Frame(fx, fy, w, h) : fx \in Origins, fy \in Origins,
                            w \in 0 .. MaxWide, h \in 0 .. MaxHigh }

HostQuiet ==
    /\ screenList = <<>>
    /\ focused = "none"
    /\ winFrame = <<>>
    /\ winScreen = <<>>
    /\ handler = [name |-> "none"]
    /\ trace = <<>>
    /\ alerts = <<>>
    /\ committed = <<>>
    /\ fault = FALSE
    /\ newScreen = 0
    /\ oldFrame = Undefined
    /\ currentScreen = 0
    /\ keyHandlers = <<>>

InitCalc ==
    /\ HostQuiet
    /\ script = "phizeup.js"
    /\ parentFrame \in ParentFrames
    /\ direction = "none"
    /\ subFrame = Undefined
    /\ label = Undefined

\* one call getSubFrame(parentFrame, dir)
Resolve(dir) ==
    /\ direction = "none"
    /\ direction' = dir
    /\ subFrame' = getSubFrame(parentFrame, dir)
    /\ UNCHANGED <<parentFrame, label, script, keyHandlers, hostVars, obsVars>>

NextCalc == \E dir \in PartitionNames \cup UnknownNames : Resolve(dir)

SpecCalc == InitCalc /\ [][NextCalc]_vars

\* the same runs on screen-sized parent frames: common display sizes, one at
\* an offset origin, and the two side-by-side screens of getSubFrame's comment
ExampleFrames ==
    { Frame(Pt(0),   Pt(0),    Pt(1000), Pt(800)),
      Frame(Pt(0),   Pt(0),    Pt(900),  Pt(600)),
      Frame(Pt(200), Pt(100),  Pt(1000), Pt(800)),
      Frame(Pt(0),   Pt(0),    Pt(1400), Pt(1000)),
      Frame(Pt(0),   Pt(0),    Pt(1000), Pt(700)),
      Frame(Pt(0),   Pt(0),    Pt(800),  Pt(600)),
      Frame(Pt(800), Pt(-600), Pt(1600), Pt(1200)),
      Frame(Pt(0),   Pt(23),   Pt(1366), Pt(745)) }

InitExamples ==
    /\ HostQuiet
    /\ script = "phizeup.js"
    /\ parentFrame \in ExampleFrames
    /\ direction = "none"
    /\ subFrame = Undefined
    /\ label = Undefined

SpecExamples == InitExamples /\ [][NextCalc]_vars

----------------------------------------------------------------------------
(* Key binding runs: multiKey applied to its arguments, and setupHandlers  *)
(* applied to either keymap choice, in each script                         *)

MaxKeys == 2

KeyNames == { "left", "keypad4", "m" }

KeyArrays == UNION { [1 .. n -> KeyNames] : n \in 0 .. MaxKeys }

ModifierSets == { modKeys1, modKeys2, screenKeys }

Handlers == { putWindow("left"), maximise, putWindowScreen("next", FALSE) }

InitKeys ==
    /\ HostQuiet
    /\ script \in Scripts
    /\ parentFrame = Undefined
    /\ direction = "none"
    /\ subFrame = Undefined
    /\ label = Undefined

\* one call multiKey(alternates, modifiers, h)
Bind(alternates, modifiers, h) ==
    /\ handler.name = "none"
    /\ script # "part_000"
    /\ handler' = [name |-> "multiKey", alternates |-> alternates,
                   modifiers |-> modifiers, handler |-> h]
    /\ keyHandlers' = multiKey(alternates, modifiers, h)
    /\ UNCHANGED <<hostVars, parentFrame, direction, subFrame, label, script,
                   trace, alerts, committed, fault, newScreen, oldFrame,
                   currentScreen>>

\* one call setupHandlers(useSizeUpDefaults)
Setup(useSizeUpDefaults) ==
    /\ handler.name = "none"
    /\ handler' = [name |-> "setupHandlers",
                   useSizeUpDefaults |-> useSizeUpDefaults]
    /\ keyHandlers' = setupHandlers(script, useSizeUpDefaults)
    /\ UNCHANGED <<hostVars, parentFrame, direction, subFrame, label, script,
                   trace, alerts, committed, fault, newScreen, oldFrame,
                   currentScreen>>

\* a script is loaded: its top-level statements run, the last of them
\* keyHandlers = setupHandlers(config.sizeUpDefaults) with the setting given
Load(useSizeUpDefaults) ==
    /\ handler.name = "none"
    /\ handler' = [name |-> "load", useSizeUpDefaults |-> useSizeUpDefaults]
    /\ keyHandlers' = loaded(script, useSizeUpDefaults)
    /\ UNCHANGED <<hostVars, parentFrame, direction, subFrame, label, script,
                   trace, alerts, committed, fault, newScreen, oldFrame,
                   currentScreen>>

NextKeys ==
    \/ \E key \in KeyNames, modifiers \in ModifierSets, h \in Handlers :
          Bind(One(key), modifiers, h)
    \/ \E keys \in KeyArrays, modifiers \in ModifierSets, h \in Handlers :
          Bind(Many(keys), modifiers, h)
    \/ \E useSizeUpDefaults \in BOOLEAN : Setup(useSizeUpDefaults)
    \/ \E useSizeUpDefaults \in BOOLEAN : Load(useSizeUpDefaults)

SpecKeys == InitKeys /\ [][NextKeys]_vars

----------------------------------------------------------------------------
(* Direction labels: changeDirection applied to a pair of frames           *)

DeltaFrames == { Frame(fx, fy, Pt(3), Pt(2)) : fx \in Origins, fy \in Origins }

InitDelta ==
    /\ screenList = <<>>
    /\ focused = "none"
    /\ winFrame = <<>>
    /\ winScreen = <<>>
    /\ handler = [name |-> "none"]
    /\ trace = <<>>
    /\ alerts = <<>>
    /\ committed = <<>>
    /\ fault = FALSE
    /\ newScreen = 0
    /\ oldFrame \in DeltaFrames
    /\ currentScreen = 0
    /\ keyHandlers = <<>>
    /\ script = "phizeup.js"
    /\ parentFrame = Undefined
    /\ direction = "none"
    /\ subFrame = Undefined
    /\ label = Undefined

\* one call changeDirection(newF, oldFrame)
Compare(newF) ==
    /\ handler.name = "none"
    /\ handler' = [name |-> "changeDirection"]
    /\ committed' = <<newF>>
    /\ label' = [threw |-> FALSE, value |-> <<changeDirection(newF, oldFrame)>>]
    /\ UNCHANGED <<hostVars, parentFrame, direction, subFrame, script,
                   keyHandlers, trace, alerts, fault, newScreen, oldFrame,
                   currentScreen>>

NextDelta == \E newF \in DeltaFrames : Compare(newF)

SpecDelta == InitDelta /\ [][NextDelta]_vars

----------------------------------------------------------------------------
(* Label lookups: Movements.get applied to a name, in each script          *)

RequestedNames ==
    LabelNames \cup { "get" } \cup ObjectPrototype \cup { "bogus", "Up" }

InitLabel ==
    /\ HostQuiet
    /\ script \in Scripts
    /\ parentFrame = Undefined
    /\ direction = "none"
    /\ subFrame = Undefined
    /\ label = Undefined

\* one call Movements.get(name)
GetLabel(name) ==
    /\ direction = "none"
    /\ direction' = name
    /\ label' = MovementsGet(script, name)
    /\ UNCHANGED <<parentFrame, subFrame, script, keyHandlers, hostVars, obsVars>>

NextLabel == \E name \in RequestedNames : GetLabel(name)

SpecLabel == InitLabel /\ [][NextLabel]_vars

----------------------------------------------------------------------------
(* Geometry of frames, for the statements below                            *)

RightEdge(f) == f.x + f.width

BottomEdge(f) == f.y + f.height

Abs(v) == IF v < 0 THEN -v ELSE v

WholeFrame(f) ==
    IsWhole(f.x) /\ IsWhole(f.y) /\ IsWhole(f.width) /\ IsWhole(f.height)

\* f lies inside p, leaving it by at most tol ticks at any edge
InsideWithin(f, p, tol) ==
    /\ f.x >= p.x - tol
    /\ f.y >= p.y - tol
    /\ RightEdge(f) <= RightEdge(p) + tol
    /\ BottomEdge(f) <= BottomEdge(p) + tol

\* a getSubFrame call for a partition name has returned
Resolved == direction \in PartitionNames

\* C1 (as stated): every partition of every parent frame lies inside the
\* parent, leaving it by at most 1 point per axis.
C1_ContainmentAnyParent ==
    Resolved => InsideWithin(subFrame, parentFrame, Pt(1))

\* C1 (amended): for a parent frame of whole points every partition lies
\* inside the parent up to 1 point per axis; for any parent frame up to 2.
C1_Containment ==
    Resolved =>
        /\ WholeFrame(parentFrame) => InsideWithin(subFrame, parentFrame, Pt(1))
        /\ InsideWithin(subFrame, parentFrame, Pt(2))

\* C1 witness: rightThird of a whole parent at a negative origin overshoots
\* the parent's right edge by exactly one point.
C1_Witness ==
    /\ direction = "rightThird"
    /\ WholeFrame(parentFrame)
    /\ parentFrame.x < 0
    /\ RightEdge(subFrame) = RightEdge(parentFrame) + Pt(1)

\* the frame of partition n of the parent frame of this run
Cell(n) == IF n = direction THEN subFrame ELSE getSubFrame(parentFrame, n)

\* the cells of one row, left to right, share their top and height, start at
\* p's left edge, follow one another and end at p's right edge, each up to tol
TilesRow(p, row, tol) ==
    /\ \A i \in 1 .. Len(row) :
          /\ Cell(row[i]).y = Cell(row[1]).y
          /\ Cell(row[i]).height = Cell(row[1]).height
    /\ Abs(Cell(row[1]).x - p.x) <= tol
    /\ \A i \in 1 .. Len(row) - 1 :
          Abs(Cell(row[i + 1]).x - RightEdge(Cell(row[i]))) <= tol
    /\ Abs(RightEdge(Cell(row[Len(row)])) - RightEdge(p)) <= tol

\* rows of cells, top to bottom, reconstruct p: no gap, overlap or excess
\* wider than tol on either axis
Tiles(p, rows, tol) ==
    /\ \A r \in 1 .. Len(rows) :
          /\ TilesRow(p, rows[r], tol)
          /\ \A i \in 1 .. Len(rows[r]) :
                /\ Cell(rows[r][i]).x = Cell(rows[1][i]).x
                /\ Cell(rows[r][i]).width = Cell(rows[1][i]).width
    /\ Abs(Cell(rows[1][1]).y - p.y) <= tol
    /\ \A r \in 1 .. Len(rows) - 1 :
          Abs(Cell(rows[r + 1][1]).y - BottomEdge(Cell(rows[r][1]))) <= tol
    /\ Abs(BottomEdge(Cell(rows[Len(rows)][1])) - BottomEdge(p)) <= tol

Members(rows) ==
    UNION { { rows[r][i] : i \in 1 .. Len(rows[r]) } : r \in 1 .. Len(rows) }

Quarters == << <<"topLeft", "topRight">>, <<"bottomLeft", "bottomRight">> >>

\* the families of partitions designed to tile their parent
Families ==
    { << <<"left", "right">> >>,
      << <<"up">>, <<"down">> >>,
      << <<"leftThird", "centreThird", "rightThird">> >>,
      << <<"left2Thirds", "rightThird">> >>,
      << <<"leftThird", "right2Thirds">> >>,
      << <<"topLeftSix", "topCentreSix", "topRightSix">>,
         <<"botLeftSix", "botCentreSix", "botRightSix">> >> }

\* C2 (as stated): the four quarters of every parent frame reconstruct it,
\* with gap, overlap or excess of at most 1 point per axis.
C2_QuarterTilingAnyParent ==
    direction \in Members(Quarters) => Tiles(parentFrame, Quarters, Pt(1))

\* C2 (amended): the four quarters of a parent frame of whole points
\* reconstruct it up to 1 point per axis; of any parent frame, up to 2.
C2_QuarterTiling ==
    direction \in Members(Quarters) =>
        /\ WholeFrame(parentFrame) => Tiles(parentFrame, Quarters, Pt(1))
        /\ Tiles(parentFrame, Quarters, Pt(2))

\* C2 witness: a quarter of a whole parent with odd width and odd height,
\* where the quarters overshoot the parent by one point on both axes.
C2_Witness ==
    /\ direction = "bottomRight"
    /\ WholeFrame(parentFrame)
    /\ RightEdge(subFrame) = RightEdge(parentFrame) + Pt(1)
    /\ BottomEdge(subFrame) = BottomEdge(parentFrame) + Pt(1)
    /\ subFrame.x = RightEdge(Cell("bottomLeft"))
    /\ subFrame.y = BottomEdge(Cell("topRight"))

\* C3 (as stated): every family designed to tile reconstructs every parent
\* frame, with gap, overlap or excess of at most 1 point per axis.
C3_FamilyTilingAnyParent ==
    \A rows \in Families :
        direction \in Members(rows) => Tiles(parentFrame, rows, Pt(1))

\* C3 (amended): every family designed to tile reconstructs a parent frame
\* of whole points up to 1 point per axis; any parent frame, up to 2.
C3_FamilyTiling ==
    \A rows \in Families :
        direction \in Members(rows) =>
            /\ WholeFrame(parentFrame) => Tiles(parentFrame, rows, Pt(1))
            /\ Tiles(parentFrame, rows, Pt(2))

\* C3 witness: the thirds of a whole parent whose width is 1 more than a
\* multiple of 3 leave a gap of one point at the parent's right edge.
C3_Witness ==
    /\ direction = "rightThird"
    /\ WholeFrame(parentFrame)
    /\ parentFrame.width > Pt(3)
    /\ RightEdge(subFrame) = RightEdge(parentFrame) - Pt(1)
    /\ subFrame.x = RightEdge(Cell("centreThird"))

\* C4 (as stated): all four fields of every partition of every parent frame,
\* whole or not, are whole numbers.
C4_IntegerFields == Resolved => WholeFrame(subFrame)

Translate(f, dx, dy) == [f EXCEPT !.x = @ + dx, !.y = @ + dy]

Shifts == { Pt(k) : k \in -MaxShift .. MaxShift }

\* C5: translating the parent frame by whole points (dx, dy) translates every
\* partition by exactly (dx, dy) and keeps its width and height.
C5_OriginPropagation ==
    Resolved =>
        \A dx \in Shifts, dy \in Shifts :
            getSubFrame(Translate(parentFrame, dx, dy), direction)
                = Translate(subFrame, dx, dy)

\* C5 witness: the centre partition of a parent at a negative origin, placed
\* at a non-zero offset from that origin.
C5_Witness ==
    /\ direction = "centre"
    /\ parentFrame.x < 0
    /\ parentFrame.y < 0
    /\ subFrame.x > parentFrame.x + Pt(1)
    /\ subFrame.y > parentFrame.y

----------------------------------------------------------------------------
(* Handlers: unknown names, labels, missing windows, screens               *)

HandlerNames == { "putWindow", "maximise", "putWindowScreen" }

Called(call) == call \in Range(trace)

\* C6: when a putWindow handler fires with a name outside the catalog and a
\* window is focused, no frame is applied: window.setFrame is not called and
\* the window's frame stays what it was
C6_UnknownPartitionNoOp ==
    ( /\ handler.name = "putWindow"
      /\ handler.window # NoWindow
      /\ handler.direction \notin PartitionNames )
    => /\ committed = <<>>
       /\ ~Called("window.setFrame")
       /\ winFrame[handler.window] = oldFrame

\* C7: Movements.get(name) never raises; for a name with a defined label it
\* returns that label (as defined, or with its spaces rendered as line
\* breaks), and for any other name it returns the name itself
C7_LabelFallback ==
    direction # "none"
    => /\ ~label.threw
       /\ direction \in LabelNames
          => label.value \in { Movements(script, direction),
                               SpacesToNewlines(Movements(script, direction)) }
       /\ direction \notin LabelNames => label.value = <<direction>>

\* C8: a handler that fires while no window is focused shows its message
\* ("Nothing to move", or "NO Windows for current app" for putWindowScreen)
\* on the main screen and returns; it sets no frame, maximises nothing,
\* asks no window for its screen, and leaves every window where it was
C8_NoFocusedWindow ==
    [][ ( /\ focused = NoWindow
          /\ handler.name = "none"
          /\ handler'.name \in HandlerNames )
        => /\ alerts' = << Alert(IF handler'.name = "putWindowScreen"
                                 THEN <<"NO Windows for current app">>
                                 ELSE <<"Nothing to move">>, screenList[1]) >>
           /\ committed' = <<>>
           /\ ~fault'
           /\ Range(trace') \cap { "window.setFrame", "window.maximise",
                                   "window.screen", "window.frame" } = {}
           /\ winFrame' = winFrame
           /\ winScreen' = winScreen ]_vars

C8_Witness ==
    /\ handler.name = "putWindowScreen"
    /\ handler.window = NoWindow
    /\ Len(alerts) = 1
    /\ Len(screenList) > 1

\* C9: putWindowScreen with a focused window and fewer than two screens
\* shows "NO SCREENS" and returns: no frame is computed or applied and the
\* window stays where it was
C9_FewerThanTwoScreens ==
    ( /\ handler.name = "putWindowScreen"
      /\ handler.window # NoWindow
      /\ Len(screenList) < 2 )
    => /\ Len(alerts) = 1
       /\ alerts[1].text = <<"NO SCREENS">>
       /\ committed = <<>>
       /\ ~fault
       /\ ~Called("window.setFrame")
       /\ ~Called("window.frame")
       /\ winFrame[handler.window] = oldFrame
       /\ winScreen[handler.window] = currentScreen

C9_Witness ==
    /\ handler.name = "putWindowScreen"
    /\ handler.window # NoWindow
    /\ Len(screenList) = 1
    /\ Len(alerts) = 1

\* C10: putWindowScreen with a focused window and two or more screens picks
\* the first screen, in the order the host lists them, whose identifier is
\* not the current screen's: it is always defined and never the current one
C10_DestinationSelection ==
    ( /\ handler.name = "putWindowScreen"
      /\ handler.window # NoWindow
      /\ Len(screenList) >= 2 )
    => /\ ~fault
       /\ newScreen # currentScreen
       /\ \E i \in DOMAIN screenList :
             /\ screenList[i] = newScreen
             /\ \A j \in 1 .. i - 1 : screenList[j] = currentScreen

C10_Witness ==
    /\ handler.name = "putWindowScreen"
    /\ handler.window # NoWindow
    /\ Len(screenList) = 3
    /\ screenList[1] = currentScreen
    /\ newScreen = screenList[2]

----------------------------------------------------------------------------
(* Migration: the frame committed                                          *)

Migrated == handler.name = "putWindowScreen" /\ Len(committed) = 1

\* the window filled the visible frame of its screen when the handler began
WasMaximised ==
    /\ oldFrame.width = visibleFrame(currentScreen).width
    /\ oldFrame.height = visibleFrame(currentScreen).height

\* C11: when keepMaximised is true and the window's width and height equal
\* the current screen's visible width and height, wherever its origin is,
\* the frame committed by the migration is the destination screen's visible
\* frame exactly, origin and size
C11_MaximisedPreservation ==
    ( Migrated /\ handler.keepMaximised /\ WasMaximised )
    => /\ committed[1] = flippedVisibleFrame(newScreen)
       /\ winFrame[handler.window] = flippedVisibleFrame(newScreen)

C11_Witness ==
    /\ Migrated /\ handler.keepMaximised /\ WasMaximised
    /\ oldFrame.x # flippedVisibleFrame(currentScreen).x
    /\ flippedVisibleFrame(newScreen).width > oldFrame.width
    /\ committed[1].width > oldFrame.width

\* C12: in every migration that does not preserve the maximised state
\* (keepMaximised false, or the window not maximised) the committed frame
\* has the destination's visible origin, width min(old width, destination
\* visible width) and height min(old height, destination visible height)
C12_ShrinkToFit ==
    ( Migrated /\ ~(handler.keepMaximised /\ WasMaximised) )
    => LET dest == flippedVisibleFrame(newScreen)
       IN  /\ committed[1].x = dest.x
           /\ committed[1].y = dest.y
           /\ committed[1].width =
                 (IF oldFrame.width <= dest.width THEN oldFrame.width ELSE dest.width)
           /\ committed[1].height =
                 (IF oldFrame.height <= dest.height THEN oldFrame.height ELSE dest.height)
           /\ winFrame[handler.window] = committed[1]

C12_Witness ==
    /\ Migrated /\ ~handler.keepMaximised /\ WasMaximised
    /\ committed[1].width < oldFrame.width
    /\ committed[1].height < oldFrame.height

\* C13: the frame committed by every successful migration lies inside the
\* destination screen's visible frame
C13_DestinationBound ==
    Migrated => InsideWithin(committed[1], flippedVisibleFrame(newScreen), 0)

----------------------------------------------------------------------------
(* Direction labels                                                        *)

Compass ==
    { "up-left", "up", "up-right", "left", "o", "right",
      "down-left", "down", "down-right" }

Vertical(dy) == IF dy < 0 THEN "up" ELSE IF dy > 0 THEN "down" ELSE ""

Horizontal(dx) == IF dx < 0 THEN "left" ELSE IF dx > 0 THEN "right" ELSE ""

\* the label for a move by (dx, dy), y growing downwards
Heading(dx, dy) ==
    IF dx = 0 /\ dy = 0 THEN "o"
    ELSE IF dx = 0 THEN Vertical(dy)
    ELSE IF dy = 0 THEN Horizontal(dx)
    ELSE Vertical(dy) \o "-" \o Horizontal(dx)

Compared == handler.name = "changeDirection"

\* C14: changeDirection(newFrame, oldFrame) is the compass entry for the
\* signs of (new.y - old.y, new.x - old.x): right and up gives up-right, no
\* change gives the no-movement label, the nine sign pairs give nine
\* different labels, and the lookup is defined for every pair of frames
C14_DirectionLabel ==
    Compared
    => LET dx == committed[1].x - oldFrame.x
           dy == committed[1].y - oldFrame.y
       IN  /\ label.value = << Heading(dx, dy) >>
           /\ label.value[1] \in Compass
           /\ (dx > 0 /\ dy < 0) => label.value = << "up-right" >>
           /\ (dx = 0 /\ dy = 0) => label.value = << "o" >>
           /\ Cardinality({ Heading(sx, sy) : sx \in -1 .. 1, sy \in -1 .. 1 }) = 9

C14_Witness ==
    /\ Compared
    /\ committed[1].x > oldFrame.x
    /\ committed[1].y < oldFrame.y
    /\ label.value = << "up-right" >>

----------------------------------------------------------------------------
(* Handlers: side effects and their order                                  *)

Count(call) == Cardinality({ i \in DOMAIN trace : trace[i] = call })

Positions(call) == { i \in DOMAIN trace : trace[i] = call }

\* C15: every successful migration applies the planned frame with exactly
\* one setFrame call on the focused window and shows one message twice,
\* once on the origin screen and once on the destination screen; the frame
\* is fixed by the old frame and the two screens, and the message's
\* direction is read off it
C15_MigrationSideEffects ==
    Migrated
    => /\ Count("window.setFrame") = 1
       /\ winFrame[handler.window] = committed[1]
       /\ Count("modal.show") = 2
       /\ Len(alerts) = 2
       /\ alerts[1].text = alerts[2].text
       /\ alerts[1].screen = currentScreen
       /\ alerts[2].screen = newScreen
       /\ committed[1].x = flippedVisibleFrame(newScreen).x
       /\ committed[1].y = flippedVisibleFrame(newScreen).y
       /\ committed[1].width \in { oldFrame.width, flippedVisibleFrame(newScreen).width }
       /\ committed[1].height \in { oldFrame.height, flippedVisibleFrame(newScreen).height }
       /\ alerts[1].text[3] = Heading(committed[1].x - oldFrame.x,
                                      committed[1].y - oldFrame.y)

C15_Witness ==
    /\ Migrated
    /\ Len(screenList) = 3
    /\ alerts[2].screen # alerts[1].screen
    /\ alerts[1].text[3] = "up-left"
    /\ winFrame[handler.window] # oldFrame

\* a partition or migration handler has handed a frame to the host
Applied ==
    /\ handler.name \in { "putWindow", "putWindowScreen" }
    /\ Len(committed) = 1

----------------------------------------------------------------------------
(* Key bindings                                                            *)

\* the chords bound to handler h: key and modifiers
Chords(h) ==
    { <<k.key, k.modifiers>> : k \in { b \in Range(keyHandlers) : b.handler = h } }

\* C17: multiKey(alternates, modifiers, handler) binds one chord per element
\* of alternates, in order, each with the modifiers and the handler given; a
\* key that is no array counts as a list of one; so setupHandlers binds each
\* action to exactly the chords listed for it, the key and its keypad twin
C17_OneToManyBinding ==
    /\ handler.name = "multiKey"
       => LET listed == IF handler.alternates.isArray
                        THEN handler.alternates.items
                        ELSE << handler.alternates.key >>
          IN  /\ Len(keyHandlers) = Len(listed)
              /\ \A i \in DOMAIN listed :
                    /\ keyHandlers[i].key = listed[i]
                    /\ keyHandlers[i].modifiers = handler.modifiers
                    /\ keyHandlers[i].handler = handler.handler
    /\ (handler.name = "setupHandlers" /\ script # "part_000")
       => /\ Chords(putWindow("leftThird")) =
                { <<",", modKeys1>>, <<"keypad1", modKeys1>> }
          /\ Chords(putWindow("botRightSix")) =
                { <<"l", modKeys1>>, <<"keypad6", modKeys1>> }
          /\ Chords(maximise) = { <<"m", modKeys1>>, <<"keypad+", modKeys1>> }
          /\ Chords(putWindow("up")) = { <<"up", modKeys1>> }
          /\ Chords(putWindowScreen("next", FALSE)) =
                { <<"left", screenKeys>>, <<"right", screenKeys>> }

C17_Witness ==
    /\ handler.name = "multiKey"
    /\ handler.alternates.isArray
    /\ Len(handler.alternates.items) = 2
    /\ handler.alternates.items[1] # handler.alternates.items[2]
    /\ Len(keyHandlers) = 2
    /\ keyHandlers[2].key = handler.alternates.items[2]

CornerNames == { "topLeft", "topRight", "bottomLeft", "bottomRight" }

Corners(bound) ==
    { k \in Range(bound) :
        k.handler.name = "putWindow" /\ k.handler.direction \in CornerNames }

\* C18: the classic keymap binds the corner moves topLeft, topRight,
\* bottomLeft, bottomRight to left, up, down, right with ctrl+alt+shift; the
\* diagonal keymap binds them to r, t, f, g with ctrl+alt+cmd; every other
\* binding is the same in the two keymaps
C18_KeymapVariants ==
    handler.name = "setupHandlers"
    => LET other == setupHandlers(script, ~handler.useSizeUpDefaults)
       IN  /\ Corners(keyHandlers) =
                 IF handler.useSizeUpDefaults
                 THEN { Key("left",  modKeys2, putWindow("topLeft")),
                        Key("up",    modKeys2, putWindow("topRight")),
                        Key("down",  modKeys2, putWindow("bottomLeft")),
                        Key("right", modKeys2, putWindow("bottomRight")) }
                 ELSE { Key("r", modKeys1, putWindow("topLeft")),
                        Key("t", modKeys1, putWindow("topRight")),
                        Key("f", modKeys1, putWindow("bottomLeft")),
                        Key("g", modKeys1, putWindow("bottomRight")) }
           /\ Range(keyHandlers) \ Corners(keyHandlers)
                 = Range(other) \ Corners(other)
           /\ Len(keyHandlers) = Len(other)

C18_Witness ==
    /\ handler.name = "setupHandlers"
    /\ handler.useSizeUpDefaults
    /\ script = "phizeup.js#2"
    /\ Key("left", modKeys2, putWindow("topLeft")) \in Range(keyHandlers)
    /\ Key("r", modKeys1, putWindow("topLeft")) \notin Range(keyHandlers)

----------------------------------------------------------------------------
(* Handlers: faults and freshness                                          *)

\* the call that built the handler dispatched last
Built ==
    CASE handler.name = "putWindow" -> putWindow(handler.direction)
      [] handler.name = "maximise" -> maximise
      [] handler.name = "putWindowScreen" ->
            putWindowScreen(handler.toScreen, handler.keepMaximised)

Registered ==
    /\ handler.name \in HandlerNames
    /\ Built \in { k.handler : k \in Range(keyHandlers) }

\* C19: every handler setupHandlers registers returns normally in every
\* host state, window focused or not, one screen or several: no exception
\* reaches the host; in particular the label of every registered partition
\* is found without a fault in every copy of the script
C19_NoUnhandledFault ==
    Registered
    => /\ ~fault
       /\ handler.name = "putWindow"
          => /\ handler.direction \in PartitionNames
             /\ \A scr \in Scripts : ~MovementsGet(scr, handler.direction).threw

C19_Witness ==
    /\ Registered
    /\ handler.name = "putWindowScreen"
    /\ handler.keepMaximised
    /\ handler.window # NoWindow
    /\ Len(screenList) = 1
    /\ ~fault

----------------------------------------------------------------------------
(* Frame calculator: worked examples, centre, seams                        *)

\* C21: topLeft of {0,0,1000,800} is {0,0,500,400}; centreThird of
\* {0,0,900,600} is {300,0,300,600}; bottomRight of {200,100,1000,800} is
\* {700,500,500,400}
C21_ConcreteResolutions ==
    /\ (parentFrame = Frame(Pt(0), Pt(0), Pt(1000), Pt(800)) /\ direction = "topLeft")
       => subFrame = Frame(Pt(0), Pt(0), Pt(500), Pt(400))
    /\ (parentFrame = Frame(Pt(0), Pt(0), Pt(900), Pt(600)) /\ direction = "centreThird")
       => subFrame = Frame(Pt(300), Pt(0), Pt(300), Pt(600))
    /\ (parentFrame = Frame(Pt(200), Pt(100), Pt(1000), Pt(800))
           /\ direction = "bottomRight")
       => subFrame = Frame(Pt(700), Pt(500), Pt(500), Pt(400))

C21_Witness ==
    /\ parentFrame = Frame(Pt(200), Pt(100), Pt(1000), Pt(800))
    /\ direction = "bottomRight"
    /\ subFrame.x = Pt(700)
    /\ subFrame.y = Pt(500)

\* how far apart the margins f leaves inside p are, per axis
MarginSkewX(f, p) == Abs((f.x - p.x) - (RightEdge(p) - RightEdge(f)))

MarginSkewY(f, p) == Abs((f.y - p.y) - (BottomEdge(p) - BottomEdge(f)))

CentreResolved == Resolved /\ direction = "centre"

HalfSized ==
    /\ subFrame.width  = MathRound(parentFrame.width, 2)
    /\ subFrame.height = MathRound(parentFrame.height, 2)

\* C22 as stated: centre has width round(P.width/2), height round(P.height/2)
\* and its left/right and top/bottom margins inside P differ by at most 1 unit
C22_CentredWithinOne ==
    CentreResolved =>
        /\ HalfSized
        /\ MarginSkewX(subFrame, parentFrame) <= Pt(1)
        /\ MarginSkewY(subFrame, parentFrame) <= Pt(1)

\* C22 amended: centre has width round(P.width/2), height round(P.height/2)
\* and its left/right and top/bottom margins inside P differ by at most 2 units
C22_CentredWithinTwo ==
    CentreResolved =>
        /\ HalfSized
        /\ MarginSkewX(subFrame, parentFrame) <= Pt(2)
        /\ MarginSkewY(subFrame, parentFrame) <= Pt(2)

C22_Witness ==
    /\ CentreResolved
    /\ WholeFrame(parentFrame)
    /\ parentFrame.width = Pt(5)
    /\ subFrame.width = Pt(3)
    /\ MarginSkewX(subFrame, parentFrame) = Pt(2)

----------------------------------------------------------------------------
(* Migration: the toScreen argument                                        *)

\* the values the scripts pass as toScreen
ToScreenValues == { "next", "previous", "anything" }

\* what the handler built with toScreen and the running handler's
\* keepMaximised commits and announces in the host state the handler met
Outcome(toScreen) ==
    LET candidates == candidateOtherScreens(screenList, currentScreen)
        chosen     == destination(toScreen, candidates)
        planned    == newFrame(oldFrame, currentScreen, chosen,
                               handler.keepMaximised)
        message    == <<"tv", "\n", changeDirection(planned, oldFrame)>>
    IN  [ newScreen |-> chosen,
          committed |-> <<planned>>,
          alerts    |-> <<Alert(message, currentScreen), Alert(message, chosen)>> ]

\* C23: migration handlers built with different toScreen values and the same
\* keepMaximised flag choose the same destination, commit the same frame and
\* emit the same feedback in every host state
C23_DestinationIgnored ==
    Migrated =>
        \A toScreen \in ToScreenValues :
            /\ newScreen = Outcome(toScreen).newScreen
            /\ committed = Outcome(toScreen).committed
            /\ alerts    = Outcome(toScreen).alerts
            /\ winFrame[handler.window] = Outcome(toScreen).committed[1]

C23_Witness ==
    /\ Migrated
    /\ handler.toScreen = "anything"
    /\ Len(candidateOtherScreens(screenList, currentScreen)) = 2
    /\ newScreen = candidateOtherScreens(screenList, currentScreen)[1]
    /\ newScreen # candidateOtherScreens(screenList, currentScreen)[2]

----------------------------------------------------------------------------
(* mousey.js: MousePointer.reveal; chords of a loaded script               *)

\* C24: when no window is focused, MousePointer.reveal returns normally: it
\* raises no fault to the host and does not dereference the missing window
C24_RevealWithoutWindow ==
    ( handler.name = "MousePointer.reveal" /\ handler.window = NoWindow )
    => /\ ~fault
       /\ ~Called("window.screen")

\* the chord of a binding: its key and the set of its modifiers
Chord(k) == <<k.key, Range(k.modifiers)>>

\* two bindings of one chord to different actions
Clash(a, b) == Chord(a) = Chord(b) /\ a.handler # b.handler

\* C25: in each script as loaded, with either keymap setting, no chord (key
\* plus modifier set) is bound to two different actions
C25_ChordUniqueness ==
    handler.name = "load"
    => \A a \in Range(keyHandlers), b \in Range(keyHandlers) : ~Clash(a, b)

----------------------------------------------------------------------------
(* Sequences of partition moves and of migrations                          *)

Partitioned ==
    /\ handler.name = "putWindow"
    /\ handler.window # NoWindow
    /\ handler.direction \in PartitionNames

\* C26: after a partition action the window's frame is getSubFrame(frame of
\* its screen, partition name), whatever its frame was before and whatever
\* actions came earlier; the window stays on its screen, and the same action
\* again leaves the frame as it is
C26_HistoryIndependence ==
    Partitioned =>
        LET window == handler.window
            target == getSubFrame(ScreenFrames[currentScreen], handler.direction)
        IN  /\ ~fault
            /\ committed = <<target>>
            /\ winFrame[window] = target
            /\ winScreen[window] = currentScreen
            /\ setInSubFrame(winFrame[window], flippedFrame(winScreen[window]),
                             handler.direction) = winFrame[window]

C26_Witness ==
    /\ Partitioned
    /\ handler.direction = "centre"
    /\ oldFrame = getSubFrame(ScreenFrames[currentScreen], "left")
    /\ winFrame[handler.window] # oldFrame
    /\ Len(committed) = 1

\* C27: with three or more screens S1, S2, ..., Sn every migration moves the
\* window to S1, unless it is on S1 already and then to S2; the window is on
\* that screen afterwards, never on S3..Sn
C27_FirstTwoScreens ==
    ( /\ handler.name = "putWindowScreen"
      /\ handler.window # NoWindow
      /\ Len(screenList) >= 3 )
    => /\ Migrated
       /\ newScreen = IF currentScreen = screenList[1]
                      THEN screenList[2] ELSE screenList[1]
       /\ winScreen[handler.window] = newScreen
       /\ \A k \in 3 .. Len(screenList) : winScreen[handler.window] # screenList[k]

C27_Witness ==
    /\ Migrated
    /\ Len(screenList) = 3
    /\ currentScreen = screenList[2]
    /\ winScreen[handler.window] = screenList[1]

\* C28: a migration built with keepMaximised = false never makes the window
\* wider or higher than it was, whatever the screens are
C28_NeverGrows ==
    ( Migrated /\ ~handler.keepMaximised )
    => /\ winFrame[handler.window].width <= oldFrame.width
       /\ winFrame[handler.window].height <= oldFrame.height
       /\ committed[1].width <= oldFrame.width
       /\ committed[1].height <= oldFrame.height

C28_Witness ==
    /\ Migrated
    /\ ~handler.keepMaximised
    /\ WasMaximised
    /\ flippedVisibleFrame(newScreen).width > oldFrame.width
    /\ flippedVisibleFrame(newScreen).height > oldFrame.height
    /\ winFrame[handler.window].width = oldFrame.width
    /\ winFrame[handler.window].height = oldFrame.height

\* the keep-maximised handler met a window filling screen A of two screens
MaximisedOnOneOfTwo ==
    /\ Migrated
    /\ handler.keepMaximised
    /\ Len(screenList) = 2
    /\ oldFrame = flippedVisibleFrame(currentScreen)

\* C29: with exactly two screens A and B, a window whose frame is A's visible
\* frame is on B with B's visible frame after one keep-maximised migration,
\* and a second keep-maximised migration puts it back on A with the frame it
\* had
C29_MaximisedRoundTrip ==
    MaximisedOnOneOfTwo =>
        LET window == handler.window
            onB    == winScreen[window]
            back   == destination(handler.toScreen,
                                  candidateOtherScreens(screenList, onB))
        IN  /\ newScreen # currentScreen
            /\ onB = newScreen
            /\ winFrame[window] = flippedVisibleFrame(newScreen)
            /\ back = currentScreen
            /\ newFrame(winFrame[window], onB, back, TRUE) = oldFrame

C29_Witness ==
    /\ MaximisedOnOneOfTwo
    /\ winScreen[handler.window] = newScreen
    /\ winFrame[handler.window].width < oldFrame.width
    /\ winFrame[handler.window].height < oldFrame.height

----------------------------------------------------------------------------
(* Frame calculator: seams                                                 *)

Abuts(leftCell, rightCell) ==
    Cell(rightCell).x = Cell(leftCell).x + Cell(leftCell).width

Stacks(topCell, bottomCell) ==
    Cell(bottomCell).y = Cell(topCell).y + Cell(topCell).height

====
